---- MODULE Spec2Model ----
(***************************************************************************)
(* Model of the PPM decoder (src/src/ppm.rs), the Image trait              *)
(* (src/src/image.rs) and the JPEG wrapper (src/src/jpeg.rs).              *)
(*                                                                         *)
(* Bytes are the integers 0..255; a Vec<u8> / Vec<u16> / String is a       *)
(* sequence of them.  The decoder is a pure function of the input bytes;   *)
(* it is written here as operators that follow the code statement by       *)
(* statement, and the actions apply them to inputs drawn in Init.          *)
(*                                                                         *)
(* The application (src/src/main.rs) is a second specification, AppSpec:   *)
(* the App struct, the message queue of the component and one action per   *)
(* arm of App::update.                                                     *)
(***************************************************************************)
EXTENDS Integers, Sequences, FiniteSets, TLC

-----------------------------------------------------------------------------
(* Bounds of the model.                                                    *)

\* largest width / height declared by a generated header
MaxDim == 2
\* largest number of raw bytes (P6) or sample tokens (P3) after the header
MaxData == 6

-----------------------------------------------------------------------------
(* Bytes and text.                                                         *)

\* "P3", "P6" as bytes
StrP3 == <<80, 51>>
StrP6 == <<80, 54>>

\* b'#' and b'\n'
HASH == 35
NEWLINE == 10

\* (*val as char).is_whitespace(): the byte is widened to the code point of
\* the same number; the White_Space code points below U+0100 are
\* U+0009..U+000D, U+0020, U+0085 and U+00A0.
is_whitespace(val) == val \in {9, 10, 11, 12, 13, 32, 133, 160}

\* std::str::from_utf8(..).is_ok()
RECURSIVE from_utf8_ok(_)
from_utf8_ok(s) ==
    IF s = <<>> THEN TRUE
    ELSE LET b == s[1]
             cont(i) == i <= Len(s) /\ s[i] >= 128 /\ s[i] <= 191
             rest(n) == SubSeq(s, n + 1, Len(s))
         IN  IF b < 128 THEN from_utf8_ok(rest(1))
             ELSE IF b >= 194 /\ b <= 223
                  THEN cont(2) /\ from_utf8_ok(rest(2))
             ELSE IF b >= 224 /\ b <= 239
                  THEN /\ cont(2) /\ cont(3)
                       /\ (b = 224 => s[2] >= 160)
                       /\ (b = 237 => s[2] <= 159)
                       /\ from_utf8_ok(rest(3))
             ELSE IF b >= 240 /\ b <= 244
                  THEN /\ cont(2) /\ cont(3) /\ cont(4)
                       /\ (b = 240 => s[2] >= 144)
                       /\ (b = 244 => s[2] <= 143)
                       /\ from_utf8_ok(rest(4))
             ELSE FALSE

U8_MAX == 255
U16_MAX == 65535

\* <unsigned integer>::from_str: an optional '+', then one or more ASCII
\* digits, the value at most max; anything else is an Err, here -1.
RECURSIVE parse_digits(_, _, _)
parse_digits(s, acc, max) ==
    IF s = <<>> THEN acc
    ELSE IF s[1] < 48 \/ s[1] > 57 THEN -1
    ELSE LET v == acc * 10 + (s[1] - 48)
         IN  IF v > max THEN -1 ELSE parse_digits(Tail(s), v, max)

parse(s, max) ==
    LET digits == IF s # <<>> /\ s[1] = 43 THEN Tail(s) ELSE s
    IN  IF digits = <<>> THEN -1 ELSE parse_digits(digits, 0, max)

\* usize::MAX is beyond the integers TLC computes with; header tokens of the
\* model have at most a few digits, so the bound below is never the one that
\* rejects a token.
USIZE_LIMIT == 1000000

-----------------------------------------------------------------------------
(* BitmapData and the PPM / JPEG structs.                                  *)

BitmapNone == [kind |-> "None", data |-> <<>>]
BitmapU8(d) == [kind |-> "U8", data |-> d]
BitmapU16(d) == [kind |-> "U16", data |-> d]

\* the struct literal of PPM::from_file / PPM::from_buffer
NewPPM == [type |-> "PPM", width |-> 0, height |-> 0, max_value |-> 0,
           ver |-> "None", buffer |-> BitmapNone]

\* the struct literal of JPEG::from_buffer (the field `data` is called
\* buffer here so that both structs have one shape)
NewJPEG == [type |-> "JPEG", width |-> 0, height |-> 0, max_value |-> 0,
            ver |-> "None", buffer |-> BitmapNone]

-----------------------------------------------------------------------------
(* PPM::populate_from_buffer.                                              *)

HEADER_DIVS == 5

\* the captured variables of the retain closure before the first byte
RetainInit == [is_commented |-> FALSE, is_multiple_whitespace |-> FALSE,
               is_last_whitespace |-> FALSE, div_count |-> 0]

\* One call of the retain closure on byte val: the captured variables after
\* the call (field st) and the closure's return value (field keep).
RetainClosure(st, val, is_p6) ==
    IF is_p6 /\ st.div_count >= HEADER_DIVS
    THEN [st |-> st, keep |-> TRUE]
    ELSE LET c1 == IF val = HASH THEN TRUE ELSE st.is_commented
             ws == is_whitespace(val)
             div == IF ws /\ ~st.is_last_whitespace /\ ~c1
                    THEN st.div_count + 1 ELSE st.div_count
             mult == IF ws
                     THEN (IF st.is_last_whitespace THEN TRUE
                           ELSE st.is_multiple_whitespace)
                     ELSE FALSE
             should_retain == (~c1 /\ ~mult) \/ (is_p6 /\ div >= HEADER_DIVS)
             c2 == IF val = NEWLINE THEN FALSE ELSE c1
         IN  [st |-> [is_commented |-> c2, is_multiple_whitespace |-> mult,
                      is_last_whitespace |-> ws, div_count |-> div],
              keep |-> should_retain]

\* buffer.retain(closure): the bytes the closure keeps, in order, visiting
\* the bytes from the first to the last.
RECURSIVE RetainFrom(_, _, _, _)
RetainFrom(buffer, i, st, is_p6) ==
    IF i > Len(buffer) THEN <<>>
    ELSE LET r == RetainClosure(st, buffer[i], is_p6)
         IN  (IF r.keep THEN <<buffer[i]>> ELSE <<>>)
             \o RetainFrom(buffer, i + 1, r.st, is_p6)

Retain(buffer, is_p6) == RetainFrom(buffer, 1, RetainInit, is_p6)

\* position(|val| is_whitespace): the 0-based index of the first whitespace
\* byte, -1 for None
RECURSIVE position_ws(_, _)
position_ws(vec, i) ==
    IF i > Len(vec) THEN -1
    ELSE IF is_whitespace(vec[i]) THEN i - 1
    ELSE position_ws(vec, i + 1)

\* get_header_string: panics when there is no whitespace byte or the token
\* is not UTF-8; otherwise the token, and the vector with the token and one
\* whitespace byte drained.
get_header_string(vec) ==
    LET header_end == position_ws(vec, 1)
        header == SubSeq(vec, 1, header_end)
    IN  IF header_end = -1 THEN [panic |-> TRUE, str |-> <<>>, vec |-> vec]
        ELSE IF ~from_utf8_ok(header)
             THEN [panic |-> TRUE, str |-> <<>>,
                   vec |-> SubSeq(vec, header_end + 2, Len(vec))]
        ELSE [panic |-> FALSE, str |-> header,
              vec |-> SubSeq(vec, header_end + 2, Len(vec))]

\* The P3 loop over the remaining bytes: u16_buffer after the loop, or a
\* panic when a token does not parse as u16.
RECURSIVE P3Samples(_, _, _, _)
P3Samples(buffer, i, num_string, u16_buffer) ==
    IF i > Len(buffer) THEN [panic |-> FALSE, u16_buffer |-> u16_buffer]
    ELSE IF is_whitespace(buffer[i])
         THEN IF Len(num_string) > 0
              THEN LET num == parse(num_string, U16_MAX)
                   IN  IF num = -1
                       THEN [panic |-> TRUE, u16_buffer |-> u16_buffer]
                       ELSE P3Samples(buffer, i + 1, <<>>,
                                      Append(u16_buffer, num))
              ELSE P3Samples(buffer, i + 1, num_string, u16_buffer)
         ELSE P3Samples(buffer, i + 1, Append(num_string, buffer[i]),
                        u16_buffer)

\* The outcomes of populate_from_buffer: the value it returns ("Ok", "Err")
\* or "Panic", self afterwards and the caller's vector afterwards.
Outcome(res, self, vec) == [result |-> res, self |-> self, buffer |-> vec]

\* Lines 73-110: the version sniff and the retain pass.  Slicing
\* buffer[0..2] panics on fewer than two bytes, from_utf8(..).expect panics
\* on bytes that are not UTF-8.
NormalizePass(buffer) ==
    IF Len(buffer) < 2 THEN [panic |-> TRUE, buffer |-> buffer]
    ELSE IF ~from_utf8_ok(SubSeq(buffer, 1, 2))
         THEN [panic |-> TRUE, buffer |-> buffer]
    ELSE [panic |-> FALSE,
          buffer |-> Retain(buffer, SubSeq(buffer, 1, 2) = StrP6)]

\* a narrowing that saturates at u8::MAX instead of truncating
as_u8_saturating(val) == IF val > U8_MAX THEN U8_MAX ELSE val

\* `*val as u8` on a u16: the low 8 bits
as_u8(val) == val % 256

\* Lines 112-154: the four header tokens, the pixel data, the promotion.
ExtractPass(self, retained) ==
    LET h1 == get_header_string(retained)
    IN  IF h1.panic THEN Outcome("Panic", self, h1.vec)
        ELSE IF h1.str # StrP3 /\ h1.str # StrP6
             THEN Outcome("Err", self, h1.vec)
        ELSE
    LET ver == IF h1.str = StrP3 THEN "P3" ELSE "P6"
        s1 == [self EXCEPT !.ver = ver]
        h2 == get_header_string(h1.vec)
        width == parse(h2.str, USIZE_LIMIT)
    IN  IF h2.panic \/ width = -1 THEN Outcome("Panic", s1, h2.vec)
        ELSE
    LET s2 == [s1 EXCEPT !.width = width]
        h3 == get_header_string(h2.vec)
        height == parse(h3.str, USIZE_LIMIT)
    IN  IF h3.panic \/ height = -1 THEN Outcome("Panic", s2, h3.vec)
        ELSE
    LET s3 == [s2 EXCEPT !.height = height]
        h4 == get_header_string(h3.vec)
        max_value == parse(h4.str, USIZE_LIMIT)
    IN  IF h4.panic \/ max_value = -1 THEN Outcome("Panic", s3, h4.vec)
        ELSE
    LET s4 == [s3 EXCEPT !.max_value = max_value]
        samples == IF ver = "P3" THEN P3Samples(h4.vec, 1, <<>>, <<>>)
                   ELSE [panic |-> FALSE, u16_buffer |-> h4.vec]
        u16_buffer == samples.u16_buffer
    IN  IF samples.panic THEN Outcome("Panic", s4, h4.vec)
        ELSE IF max_value <= U8_MAX
             THEN Outcome("Ok",
                          [s4 EXCEPT !.buffer =
                              BitmapU8([i \in 1..Len(u16_buffer) |->
                                           as_u8(u16_buffer[i])])],
                          h4.vec)
             ELSE Outcome("Ok", [s4 EXCEPT !.buffer = BitmapU16(u16_buffer)],
                          h4.vec)

populate_from_buffer(self, buffer) ==
    LET n == NormalizePass(buffer)
    IN  IF n.panic THEN Outcome("Panic", self, n.buffer)
        ELSE ExtractPass(self, n.buffer)

\* from_buffer with the Result of populate_from_buffer dropped instead of
\* unwrapped: the value is returned whatever populate_from_buffer said
expect_dropped(result) == "returned"

\* .expect("Couldn't parse ppm file.") in from_buffer: the constructor
\* returns the value only when populate_from_buffer returned Ok.
expect(result) == IF result = "Ok" THEN "returned" ELSE "panicked"

-----------------------------------------------------------------------------
(* JPEG::populate_from_buffer.  The codec is the image crate; what it      *)
(* answers for a given byte vector is not decided by this repository, so   *)
(* its answer is an input of the model: an Err, or a decoded image whose   *)
(* to_rgb8().into_raw() has width*height*3 bytes.                          *)

jpeg_populate_from_buffer(self, decoded) ==
    IF decoded.err THEN Outcome("Err", self, <<>>)
    ELSE Outcome("Ok",
                 [self EXCEPT !.width = decoded.width,
                              !.height = decoded.height,
                              !.buffer = BitmapU8(decoded.rgb8)],
                 <<>>)

-----------------------------------------------------------------------------
(* The Image trait.                                                        *)

get_width(self) == self.width
get_height(self) == self.height
get_buffer_ref(self) == self.buffer

RGB0 == <<0, 0, 0>>

\* data[i] with a 0-based index panics when i is not below the length
get_pixel_value(self, x, y) ==
    LET index == (y * get_width(self) + x) * 3
        data == get_buffer_ref(self).data
    IN  IF index >= get_width(self) * get_height(self) * 3
        THEN [panic |-> FALSE, rgb |-> RGB0]
        ELSE IF get_buffer_ref(self).kind \in {"U8", "U16"}
             THEN IF index + 2 >= Len(data)
                  THEN [panic |-> TRUE, rgb |-> RGB0]
                  ELSE [panic |-> FALSE,
                        rgb |-> <<data[index + 1], data[index + 2],
                                  data[index + 3]>>]
        ELSE [panic |-> FALSE, rgb |-> RGB0]

\* ImageBuffer::from_raw(width, height, data) is Some exactly when data has
\* at least width*height*3 samples; the encoder is taken to accept every
\* image it is given.
write_to_jpeg(self, quality) ==
    IF get_buffer_ref(self).kind = "None" THEN "Panic"
    ELSE IF Len(get_buffer_ref(self).data)
              < get_width(self) * get_height(self) * 3
         THEN "Panic"
    ELSE "Ok"

-----------------------------------------------------------------------------
(* The files the model decodes.  A file is described by the pieces it was  *)
(* written from, so that a property can name the width, the samples or the *)
(* comments that were put into it:                                         *)
(*   magic gap[1] width gap[2] height gap[3] max_value gap[4] data         *)
(* where a gap is whitespace, a comment, whitespace (each possibly empty). *)
(* w, h, maxv are the numbers the three numeric tokens were written from   *)
(* (-1 for a token that is no number) and samples the numbers the data was *)
(* written from.                                                           *)

SP == <<32>>
NL == <<10>>

RECURSIVE Dec(_)
Dec(n) == IF n < 10 THEN <<48 + n>> ELSE Dec(n \div 10) \o <<48 + (n % 10)>>

Gap(pre, comment, post) == [pre |-> pre, comment |-> comment, post |-> post]
GapBytes(g) == g.pre \o g.comment \o g.post
PlainGaps == <<Gap(NL, <<>>, <<>>), Gap(SP, <<>>, <<>>),
               Gap(NL, <<>>, <<>>), Gap(NL, <<>>, <<>>)>>

FileBytes(f) ==
    f.magic \o GapBytes(f.gap[1]) \o f.width \o GapBytes(f.gap[2])
      \o f.height \o GapBytes(f.gap[3]) \o f.max_value
      \o GapBytes(f.gap[4]) \o f.data

HeaderLen(f) == Len(FileBytes(f)) - Len(f.data)

SeqsUpTo(S, n) == UNION {[1..k -> S] : k \in 0..n}

\* the raw bytes tried as P6 pixel data: '\n', an ordinary byte, '#'
P6Bytes == {10, 20, 35}
\* the sample values tried as P3 pixel data
P3Values == {7, 300}
\* the max_value fields tried
MaxValues == {255, 65535}

P6Files ==
    {[family |-> "P6", magic |-> StrP6, gap |-> PlainGaps,
      width |-> Dec(w), height |-> Dec(h), max_value |-> Dec(m),
      data |-> d, w |-> w, h |-> h, maxv |-> m, samples |-> d] :
        w \in 1..MaxDim, h \in 1..MaxDim, m \in MaxValues,
        d \in SeqsUpTo(P6Bytes, MaxData)}

\* the samples in decimal, sep between two of them, last after the last
RECURSIVE P3Text(_, _, _)
P3Text(samples, sep, last) ==
    IF samples = <<>> THEN <<>>
    ELSE IF Len(samples) = 1 THEN Dec(samples[1]) \o last
    ELSE Dec(samples[1]) \o sep \o P3Text(Tail(samples), sep, last)

\* single spaces and a final newline; double spaces; no final whitespace
P3Layouts == {<<SP, NL>>, <<SP \o SP, NL>>, <<SP, <<>>>>}

P3Files ==
    {[family |-> "P3", magic |-> StrP3, gap |-> PlainGaps,
      width |-> Dec(w), height |-> Dec(h), max_value |-> Dec(m),
      data |-> P3Text(s, l[1], l[2]), w |-> w, h |-> h, maxv |-> m,
      samples |-> s] :
        w \in 1..MaxDim, h \in 1..MaxDim, m \in MaxValues,
        s \in SeqsUpTo(P3Values, MaxData), l \in P3Layouts}

\* one-pixel files, the pixel of the P3 kind and of the P6 kind
PixelP3 == [magic |-> StrP3, data |-> P3Text(<<7, 8, 9>>, SP, NL),
            samples |-> <<7, 8, 9>>]
PixelP6 == [magic |-> StrP6, data |-> <<20, 21, 22>>,
            samples |-> <<20, 21, 22>>]

\* "#c\n" and "# \n"
Comments == {<<35, 99, 10>>, <<35, 32, 10>>}
Gaps == {Gap(pre, c, post) :
           pre \in {<<>>, SP}, c \in Comments \cup {<<>>},
           post \in {<<>>, NL}}

\* files whose header gaps hold comments and whitespace in every arrangement
GapFiles ==
    {[family |-> "gaps", magic |-> p.magic,
      gap |-> <<g1, g2, g3, Gap(NL, <<>>, <<>>)>>,
      width |-> Dec(1), height |-> Dec(1), max_value |-> Dec(255),
      data |-> p.data, w |-> 1, h |-> 1, maxv |-> 255,
      samples |-> p.samples] :
        p \in {PixelP3, PixelP6}, g1 \in Gaps, g2 \in Gaps, g3 \in Gaps}

\* "P5", "P", and a magic that is not UTF-8
BadMagics == {<<80, 53>>, <<80>>, <<255, 54>>}
\* "x", "-1", "1x": no non-negative decimal integers
BadNumbers == {<<120>>, <<45, 49>>, <<49, 120>>}
\* "1", "+1": what the numeric tokens are written as otherwise
GoodOnes == {<<49>>, <<43, 49>>}

Num(tok) == IF tok \in BadNumbers THEN -1 ELSE 1

\* files with malformed header tokens
TokenFilesOf(p) ==
    {[family |-> "tokens", magic |-> mg, gap |-> PlainGaps,
      width |-> wt, height |-> ht, max_value |-> mt,
      data |-> p.data, w |-> Num(wt), h |-> Num(ht), maxv |-> Num(mt),
      samples |-> p.samples] :
        mg \in BadMagics \cup {p.magic},
        wt \in BadNumbers \cup GoodOnes, ht \in BadNumbers \cup GoodOnes,
        mt \in BadNumbers \cup GoodOnes}

TokenFiles == TokenFilesOf(PixelP3) \cup TokenFilesOf(PixelP6)

\* "x", "7x", "-1" and the byte C8: sample tokens that are no decimal integers
BadSamples == {<<120>>, <<55, 120>>, <<45, 49>>, <<200>>}

\* one-pixel P3 files with one sample that is no decimal integer, at each of
\* the three places, with and without whitespace after the last sample
P3BadFiles ==
    {[family |-> "P3bad", magic |-> StrP3, gap |-> PlainGaps,
      width |-> Dec(1), height |-> Dec(1), max_value |-> Dec(255),
      data |-> (IF k = 1 THEN b ELSE Dec(7)) \o SP
               \o (IF k = 2 THEN b ELSE Dec(8)) \o SP
               \o (IF k = 3 THEN b ELSE Dec(9)) \o last,
      w |-> 1, h |-> 1, maxv |-> 255,
      samples |-> <<IF k = 1 THEN -1 ELSE 7, IF k = 2 THEN -1 ELSE 8,
                    IF k = 3 THEN -1 ELSE 9>>] :
        b \in BadSamples, k \in 1..3, last \in {NL, <<>>}}

\* the sample values tried above a max_value of 255
WideValues == {255, 256, 511, 65535}

\* one-pixel P3 files that declare max_value 255 and hold larger samples
P3WideFiles ==
    {[family |-> "P3wide", magic |-> StrP3, gap |-> PlainGaps,
      width |-> Dec(1), height |-> Dec(1), max_value |-> Dec(255),
      data |-> P3Text(s, SP, NL), w |-> 1, h |-> 1, maxv |-> 255,
      samples |-> s] :
        s \in [1..3 -> WideValues]}

\* the files cut short are these two
WholeP3 == [family |-> "cut", magic |-> StrP3, gap |-> PlainGaps,
            width |-> Dec(1), height |-> Dec(1), max_value |-> Dec(255),
            data |-> PixelP3.data, w |-> 1, h |-> 1, maxv |-> 255,
            samples |-> PixelP3.samples]
WholeP6 == [WholeP3 EXCEPT !.magic = StrP6, !.data = PixelP6.data,
                           !.samples = PixelP6.samples]

\* a file the LoadFile handler takes for a JPEG: it starts with FF D8
JpegFile == [family |-> "jpeg", magic |-> <<255, 216>>,
             gap |-> [i \in 1..4 |-> Gap(<<>>, <<>>, <<>>)],
             width |-> <<>>, height |-> <<>>, max_value |-> <<>>,
             data |-> <<>>, w |-> -1, h |-> -1, maxv |-> -1,
             samples |-> <<>>]

\* what the codec may answer for a JPEG file
Decoded(w, h, v) == [err |-> FALSE, width |-> w, height |-> h,
                     rgb8 |-> [i \in 1..(w * h * 3) |-> v]]
DecodeErr == [err |-> TRUE, width |-> 0, height |-> 0, rgb8 |-> <<>>]
CodecAnswers ==
    {DecodeErr} \cup {Decoded(w, h, v) : w \in 0..MaxDim, h \in 0..MaxDim,
                                         v \in {0, 255}}

\* the quality values tried for write_to_jpeg
Qualities == {0, 100}

-----------------------------------------------------------------------------
(* State.                                                                  *)

VARIABLES
    file,    \* the description of the file that is loaded
    input,   \* its bytes as handed to from_buffer (value in Msg::LoadFile)
    buffer,  \* the Vec<u8> populate_from_buffer works on (value.clone())
    self,    \* the PPM or JPEG value under construction, then the image
    pc,      \* "created", "retained", "populated", "returned", "called",
             \* "panicked"
    result,  \* what populate_from_buffer returned: "Ok", "Err"; or "Panic"
    call     \* the last Image method called on the image and its outcome

\* The state of the application (src/src/main.rs).
VARIABLES
    app,     \* the App struct: image, scale, translate_pos, file_changed,
             \* quality
    dom,     \* what the handlers leave in the page: the size of #canvas, the
             \* size of #new_canvas and the image whose samples were uploaded
             \* as its texture, the #prompt element
    queue,   \* the messages sent to the component and not yet handled
    handled  \* the last message App::update handled and what it did

decvars == <<file, input, buffer, self, pc, result, call>>
appvars == <<app, dom, queue, handled>>
vars == <<file, input, buffer, self, pc, result, call,
          app, dom, queue, handled>>

NoCall == [op |-> "none", x |-> 0, y |-> 0, quality |-> 0,
           panic |-> FALSE, rgb |-> RGB0]

\* main.rs:122-126: a vector that starts with FF D8 goes to JPEG::from_buffer
IsJpeg(value) == Len(value) >= 2 /\ value[1] = 255 /\ value[2] = 216

-----------------------------------------------------------------------------
(* App (src/src/main.rs).                                                  *)
(*                                                                         *)
(* scale is an f64 that starts at 1.0 and is only ever multiplied by 0.9   *)
(* or by 1.1: it is kept as the two counts, scale = 0.9^down * 1.1^up.     *)
(* translate_pos is kept as the exact fraction (x / 10^exp, y / 10^exp).   *)

\* the largest number of Zoom messages in a run
MaxZoom == 2

RECURSIVE Pow(_, _)
Pow(b, n) == IF n = 0 THEN 1 ELSE b * Pow(b, n - 1)

\* scale as the fraction ScaleNum / ScaleDen
ScaleNum(scale) == Pow(9, scale.down) * Pow(11, scale.up)
ScaleDen(scale) == Pow(10, scale.down + scale.up)

\* 1.0
ScaleOne == [down |-> 0, up |-> 0]

\* Option::None for App.image, in the shape of the image structs
NoImage == [type |-> "None", width |-> 0, height |-> 0, max_value |-> 0,
            ver |-> "None", buffer |-> BitmapNone]
is_none(image) == image.type = "None"

\* App::create
create == [image |-> NoImage, scale |-> ScaleOne,
           translate_pos |-> [x |-> 0, y |-> 0, exp |-> 0],
           file_changed |-> FALSE, quality |-> 100]

\* the page of view(): <canvas width="0" height="0">, a hidden #prompt, no
\* #new_canvas yet
DomInit == [canvas |-> [width |-> 0, height |-> 0],
            new_canvas |-> [present |-> FALSE, width |-> 0, height |-> 0],
            texture |-> NoImage,
            prompt |-> [text |-> RGB0, display |-> "none"]]

\* the variants of Msg; by is not in the code: it records which handler sent
\* a Draw
MsgOf(m) == [msg |-> m, value |-> <<>>, pos |-> <<0, 0>>, y_delta |-> 0,
             quality |-> 0, by |-> "user"]
MsgLoadFile(value) == [MsgOf("LoadFile") EXCEPT !.value = value]
MsgZoom(pos, y_delta) == [MsgOf("Zoom") EXCEPT !.pos = pos,
                                              !.y_delta = y_delta]
MsgDraw(by) == [MsgOf("Draw") EXCEPT !.by = by]
MsgMouseOver(pos) == [MsgOf("MouseOver") EXCEPT !.pos = pos]
MsgQualityChange(value) == [MsgOf("QualityChange") EXCEPT !.quality = value]

\* What one call of App::update did: the struct and the page afterwards, the
\* messages it sent, its return value, whether it panicked, whether it
\* uploaded a texture.
Updated(a, d, sent, ret) ==
    [app |-> a, dom |-> d, sent |-> sent, ret |-> ret, panic |-> FALSE,
     uploaded |-> FALSE]
Panicked(a, d) ==
    [app |-> a, dom |-> d, sent |-> <<>>, ret |-> FALSE, panic |-> TRUE,
     uploaded |-> FALSE]

\* Msg::LoadFile, lines 120-133.  value[0] and value[1] panic past the end
\* of the vector; from_buffer panics unless populate_from_buffer is Ok.
\* decoded is the codec's answer, used for a JPEG.
update_LoadFile(a, d, value, decoded) ==
    IF Len(value) = 0 \/ (value[1] = 255 /\ Len(value) < 2)
    THEN Panicked(a, d)
    ELSE LET o == IF IsJpeg(value)
                  THEN jpeg_populate_from_buffer(NewJPEG, decoded)
                  ELSE populate_from_buffer(NewPPM, value)
         IN  IF expect(o.result) # "returned" THEN Panicked(a, d)
             ELSE Updated([a EXCEPT !.image = o.self,
                                    !.file_changed = TRUE,
                                    !.scale = ScaleOne],
                          d, <<MsgDraw("LoadFile")>>, TRUE)

\* Msg::Zoom, lines 134-154
update_Zoom(a, d, pos, y_delta) ==
    LET scale == IF y_delta > 0
                 THEN [a.scale EXCEPT !.down = @ + 1]
                 ELSE [a.scale EXCEPT !.up = @ + 1]
        \* 1.0 - scale / self.scale, in tenths
        tenths == IF y_delta > 0 THEN 1 ELSE -1
        tp == a.translate_pos
        unit == Pow(10, tp.exp)
        translate_pos ==
            [x |-> tp.x * 10 + (pos[1] * unit - tp.x) * tenths,
             y |-> tp.y * 10 + (pos[2] * unit - tp.y) * tenths,
             exp |-> tp.exp + 1]
    IN  Updated([a EXCEPT !.scale = scale, !.translate_pos = translate_pos],
                d, <<MsgDraw("Zoom")>>, TRUE)

MAX_CANVAS == 19000

\* (x as f64 * scale) as u32
Scaled(x, scale) == (x * ScaleNum(scale)) \div ScaleDen(scale)

\* lines 317-331: the size #canvas is left with
CanvasSize(image, scale) ==
    LET w == get_width(image)
        h == get_height(image)
        sw == IF Scaled(w, scale) > MAX_CANVAS THEN MAX_CANVAS
              ELSE Scaled(w, scale)
        sh == IF Scaled(h, scale) > MAX_CANVAS THEN MAX_CANVAS
              ELSE Scaled(h, scale)
    IN  IF sw = MAX_CANVAS \/ sh = MAX_CANVAS
        THEN IF w > h
             THEN [width |-> MAX_CANVAS, height |-> (h * MAX_CANVAS) \div w]
             ELSE [width |-> (w * MAX_CANVAS) \div h, height |-> MAX_CANVAS]
        ELSE [width |-> sw, height |-> sh]

\* glctx.tex_image_2d_...(TEXTURE_2D, 0, RGB8 | RGB16F, width, height, 0,
\* RGB, UNSIGNED_BYTE | FLOAT, Some(data)), lines 215-241.  WebGL stores the
\* pixels when the array holds at least width*height*3 samples; for a
\* shorter array it records INVALID_OPERATION and stores nothing.  Neither
\* outcome is an Err, so the expect() after the call does not panic.
tex_image_2d(width, height, data) == Len(data) >= width * height * 3

\* what the texture bound by create_texture / bind_texture holds after the
\* match of lines 214-243: the image when its samples were stored, nothing
\* otherwise
Texture(image) ==
    LET b == get_buffer_ref(image)
    IN  IF b.kind \in {"U8", "U16"}
           /\ tex_image_2d(get_width(image), get_height(image), b.data)
        THEN image
        ELSE NoImage

\* Msg::Draw, lines 155-346.  #new_canvas is created when it is missing; with
\* file_changed it is resized, a new texture is bound and the samples of the
\* image are uploaded to it (nothing is uploaded for BitmapData::None), and
\* file_changed is cleared; #canvas is resized and #new_canvas drawn on it.
update_Draw(a, d) ==
    IF is_none(a.image) THEN Updated(a, d, <<>>, FALSE)
    ELSE LET d1 == IF a.file_changed
                   THEN [d EXCEPT !.new_canvas =
                                     [present |-> TRUE,
                                      width |-> get_width(a.image),
                                      height |-> get_height(a.image)],
                                  !.texture = Texture(a.image)]
                   ELSE [d EXCEPT !.new_canvas.present = TRUE]
             a1 == [a EXCEPT !.file_changed = FALSE]
         IN  [Updated(a1,
                      [d1 EXCEPT !.canvas = CanvasSize(a.image, a.scale)],
                      <<>>, TRUE)
                 EXCEPT !.uploaded =
                           /\ a.file_changed
                           /\ get_buffer_ref(a.image).kind # "None"]

\* (pos / self.scale).floor() as usize
Unscaled(p, scale) == (p * ScaleDen(scale)) \div ScaleNum(scale)

\* Msg::MouseOver, lines 348-376.  self.image.as_ref().unwrap() panics on
\* None; the prompt is hidden for a position outside the image and then
\* shown again with the pixel's value.
update_MouseOver(a, d, pos) ==
    IF is_none(a.image) THEN Panicked(a, d)
    ELSE LET scaled_x == Unscaled(pos[1], a.scale)
             scaled_y == Unscaled(pos[2], a.scale)
             r == get_pixel_value(a.image, scaled_x, scaled_y)
         IN  IF r.panic THEN Panicked(a, d)
             ELSE Updated(a, [d EXCEPT !.prompt =
                                 [text |-> r.rgb, display |-> "block-inline"]],
                          <<>>, TRUE)

\* Msg::SaveAsJpeg, lines 377-404
update_SaveAsJpeg(a, d) ==
    IF is_none(a.image) THEN Updated(a, d, <<>>, FALSE)
    ELSE IF write_to_jpeg(a.image, a.quality) # "Ok" THEN Panicked(a, d)
    ELSE Updated(a, d, <<>>, TRUE)

\* Msg::QualityChange, lines 405-409
update_QualityChange(a, d, value) ==
    Updated([a EXCEPT !.quality = value], d, <<>>, TRUE)

\* Msg::None, line 347
update_None(a, d) == Updated(a, d, <<>>, FALSE)

\* the fields of the App struct
Fields(a) == <<a.image, a.scale, a.translate_pos, a.file_changed, a.quality>>

\* nothing handled yet.  Three fields are not in the code: found_changed is
\* file_changed as the handler found it, kept says that the handler left
\* every field of App as it was, load_undrawn that a LoadFile has been
\* handled and no Draw has been handled since.
NoMsg == [msg |-> "none", by |-> "none", ret |-> FALSE, panic |-> FALSE,
          uploaded |-> FALSE, found_changed |-> FALSE, kept |-> TRUE,
          load_undrawn |-> FALSE]

AppCreated ==
    /\ app = create
    /\ dom = DomInit
    /\ queue = <<>>
    /\ handled = NoMsg

Start(f, bytes) ==
    /\ AppCreated
    /\ file = f
    /\ input = bytes
    /\ buffer = bytes
    /\ self = IF IsJpeg(bytes) THEN NewJPEG ELSE NewPPM
    /\ pc = "created"
    /\ result = "none"
    /\ call = NoCall

Init ==
    \/ \E f \in P6Files \cup P3Files \cup GapFiles \cup TokenFiles
                 \cup P3BadFiles \cup P3WideFiles \cup {JpegFile} :
          Start(f, FileBytes(f))
    \/ \E f \in {WholeP3, WholeP6} : \E n \in 0..(Len(FileBytes(f)) - 1) :
          Start(f, SubSeq(FileBytes(f), 1, n))

\* populate_from_buffer, lines 70-110
Normalize ==
    /\ pc = "created"
    /\ self.type = "PPM"
    /\ LET n == NormalizePass(buffer)
       IN  /\ buffer' = n.buffer
           /\ pc' = IF n.panic THEN "panicked" ELSE "retained"
           /\ result' = IF n.panic THEN "Panic" ELSE result
    /\ UNCHANGED <<file, input, self, call>>
    /\ UNCHANGED appvars

\* populate_from_buffer, lines 112-154
Extract ==
    /\ pc = "retained"
    /\ LET o == ExtractPass(self, buffer)
       IN  /\ buffer' = o.buffer
           /\ self' = o.self
           /\ result' = o.result
           /\ pc' = IF o.result = "Panic" THEN "panicked" ELSE "populated"
    /\ UNCHANGED <<file, input, call>>
    /\ UNCHANGED appvars

\* JPEG::populate_from_buffer with the codec's answer
JpegPopulate ==
    /\ pc = "created"
    /\ self.type = "JPEG"
    /\ \E decoded \in CodecAnswers :
          LET o == jpeg_populate_from_buffer(self, decoded)
          IN  /\ self' = o.self
              /\ result' = o.result
    /\ pc' = "populated"
    /\ UNCHANGED <<file, input, buffer, call>>
    /\ UNCHANGED appvars

\* from_buffer: .expect(..) and return
FromBufferReturn ==
    /\ pc = "populated"
    /\ pc' = expect(result)
    /\ UNCHANGED <<file, input, buffer, self, result, call>>
    /\ UNCHANGED appvars

\* A caller that holds the image asks for a pixel.  The methods of Image
\* take &self and leave the image as it is, so one call per run shows all
\* a call can do.
GetPixelValue ==
    /\ pc = "returned"
    /\ \E x \in 0..MaxDim, y \in 0..MaxDim :
          LET r == get_pixel_value(self, x, y)
          IN  /\ call' = [NoCall EXCEPT !.op = "get_pixel_value",
                                        !.x = x, !.y = y,
                                        !.panic = r.panic, !.rgb = r.rgb]
              /\ pc' = IF r.panic THEN "panicked" ELSE "called"
    /\ UNCHANGED <<file, input, buffer, self, result>>
    /\ UNCHANGED appvars

\* a caller that holds the image saves it as JPEG
WriteToJpeg ==
    /\ pc = "returned"
    /\ \E quality \in Qualities :
          LET r == write_to_jpeg(self, quality)
          IN  /\ call' = [NoCall EXCEPT !.op = "write_to_jpeg",
                                        !.quality = quality,
                                        !.panic = (r = "Panic")]
              /\ pc' = IF r = "Panic" THEN "panicked" ELSE "called"
    /\ UNCHANGED <<file, input, buffer, self, result>>
    /\ UNCHANGED appvars

Next ==
    \/ Normalize
    \/ Extract
    \/ JpegPopulate
    \/ FromBufferReturn
    \/ GetPixelValue
    \/ WriteToJpeg

Spec == Init /\ [][Next]_vars

-----------------------------------------------------------------------------
(* The application.  The browser runs one event callback at a time and the *)
(* yew scheduler handles the message the callback returns, and every       *)
(* message a handler sends, before the callback returns: a message of the  *)
(* user arrives only when the queue is empty.  A panic ends the run.       *)

\* the files the user picks: a P3 and a P6 pixel, a 1x2 image with 16-bit
\* samples, a P6 file cut after its header, a file with a wrong magic
\* number, an empty file, the single byte FF, a JPEG
TallP6 == <<80, 54, 10, 49, 32, 50, 10, 54, 53, 53, 51, 53, 10,
            1, 2, 3, 4, 5, 6, 1, 2, 3, 4, 5, 6>>
AppFiles ==
    { FileBytes(WholeP3), FileBytes(WholeP6), TallP6,
      SubSeq(FileBytes(WholeP6), 1, HeaderLen(WholeP6)),
      <<80, 55, 10>>, <<>>, <<255>>, FileBytes(JpegFile) }

\* what the codec answers for the JPEG
AppCodecAnswers == {DecodeErr, Decoded(1, 1, 255)}

\* offset_x, offset_y of a mouse event
Positions == {<<0, 0>>, <<0, 1>>}

\* delta_y of a wheel event
Deltas == {-1, 1}

\* the messages the callbacks of view() produce, lines 50-100; Draw is only
\* ever sent by a handler
UserMsgs ==
    {MsgLoadFile(value) : value \in AppFiles}
        \cup {MsgZoom(pos, y_delta) : pos \in Positions, y_delta \in Deltas}
        \cup {MsgMouseOver(pos) : pos \in Positions}
        \cup {MsgQualityChange(value) : value \in Qualities}
        \cup {MsgOf("SaveAsJpeg"), MsgOf("None")}

\* the decoder's variables are not used by the application
DecoderIdle ==
    /\ file = JpegFile
    /\ input = <<>>
    /\ buffer = <<>>
    /\ self = NewPPM
    /\ pc = "idle"
    /\ result = "none"
    /\ call = NoCall

AppInit == AppCreated /\ DecoderIdle

Alive == ~handled.panic

\* a callback of view() returns a message
Deliver ==
    /\ Alive
    /\ queue = <<>>
    /\ \E m \in UserMsgs :
          /\ m.msg = "Zoom" => app.translate_pos.exp < MaxZoom
          /\ queue' = <<m>>
    /\ UNCHANGED <<app, dom, handled>>
    /\ UNCHANGED decvars

\* App::update has handled the head of the queue with outcome r
Handle(r) ==
    LET m == Head(queue)
    IN  /\ app' = r.app
        /\ dom' = r.dom
        /\ queue' = Tail(queue) \o r.sent
        /\ handled' =
              [msg |-> m.msg, by |-> m.by, ret |-> r.ret, panic |-> r.panic,
               uploaded |-> r.uploaded, found_changed |-> app.file_changed,
               kept |-> Fields(r.app) = Fields(app),
               load_undrawn |->
                   IF m.msg = "LoadFile" /\ ~r.panic THEN TRUE
                   ELSE IF m.msg = "Draw" THEN FALSE
                   ELSE handled.load_undrawn]
        /\ UNCHANGED decvars

Pending(msg) == Alive /\ queue # <<>> /\ Head(queue).msg = msg

LoadFile ==
    /\ Pending("LoadFile")
    /\ \E decoded \in AppCodecAnswers :
          Handle(update_LoadFile(app, dom, Head(queue).value, decoded))

Zoom ==
    /\ Pending("Zoom")
    /\ Handle(update_Zoom(app, dom, Head(queue).pos, Head(queue).y_delta))

Draw ==
    /\ Pending("Draw")
    /\ Handle(update_Draw(app, dom))

MouseOver ==
    /\ Pending("MouseOver")
    /\ Handle(update_MouseOver(app, dom, Head(queue).pos))

SaveAsJpeg ==
    /\ Pending("SaveAsJpeg")
    /\ Handle(update_SaveAsJpeg(app, dom))

QualityChange ==
    /\ Pending("QualityChange")
    /\ Handle(update_QualityChange(app, dom, Head(queue).quality))

None ==
    /\ Pending("None")
    /\ Handle(update_None(app, dom))

AppNext ==
    \/ Deliver
    \/ LoadFile
    \/ Zoom
    \/ Draw
    \/ MouseOver
    \/ SaveAsJpeg
    \/ QualityChange
    \/ None

AppSpec == AppInit /\ [][AppNext]_vars

-----------------------------------------------------------------------------
(* Vocabulary of the properties.                                           *)

\* the whole file was handed over
Whole == input = FileBytes(file)
\* populate_from_buffer has run to its end (returned or panicked)
Populated == result # "none"
\* code outside the constructor holds the image
Observable == pc \in {"returned", "called"} \/ call.op # "none"

\* a P6 file with exactly width*height*3 raw bytes after one whitespace byte
ValidP6 == file.family = "P6" /\ Whole
             /\ Len(file.data) = file.w * file.h * 3
\* a P3 file with exactly width*height*3 samples, none above max_value
ValidP3 == file.family = "P3" /\ Whole
             /\ Len(file.samples) = file.w * file.h * 3
             /\ \A i \in 1..Len(file.samples) : file.samples[i] <= file.maxv

\* the three samples of pixel (x, y) as the file holds them
FilePixel(x, y) ==
    LET index == (y * file.w + x) * 3
    IN  <<file.samples[index + 1], file.samples[index + 2],
          file.samples[index + 3]>>

\* a get_pixel_value call inside the declared dimensions gave the file's pixel
InRangeCallsExact ==
    (call.op = "get_pixel_value" /\ call.x < file.w /\ call.y < file.h)
        => (~call.panic /\ call.rgb = FilePixel(call.x, call.y))

\* C1: every valid P6 file with max_value <= 255 decodes to a U8 buffer that
\* is the raw pixel bytes in their order, whatever the bytes are, and
\* get_pixel_value inside the image returns the file's byte triplet.
C1_P6BytesSurvive ==
    (ValidP6 /\ file.maxv <= 255 /\ Populated)
        => /\ result = "Ok"
           /\ get_buffer_ref(self) = BitmapU8(file.data)
           /\ InRangeCallsExact

\* C2: every valid P3 file decodes to the header's width, height and
\* max_value and to a buffer holding all the decimal samples of the text in
\* their order, with or without whitespace after the last sample.
C2_P3SamplesExact ==
    (ValidP3 /\ Populated)
        => /\ result = "Ok"
           /\ self.ver = "P3"
           /\ self.width = file.w /\ self.height = file.h
           /\ self.max_value = file.maxv
           /\ get_buffer_ref(self) =
                (IF file.maxv <= 255 THEN BitmapU8(file.samples)
                 ELSE BitmapU16(file.samples))
           /\ InRangeCallsExact

\* C3: no decode succeeds with a buffer whose length differs from
\* width*height*3, and so no get_pixel_value call indexes past the buffer.
C3_LengthChecked ==
    /\ (self.type = "PPM" /\ result = "Ok")
          => Len(get_buffer_ref(self).data) = self.width * self.height * 3
    /\ call.op = "get_pixel_value" => ~call.panic

\* C4: on an image whose buffer has width*height*3 samples, get_pixel_value
\* returns (0,0,0) without panicking for every x >= width or y >= height.
C4_OutOfRangeIsZero ==
    ( /\ call.op = "get_pixel_value"
      /\ Len(get_buffer_ref(self).data) = self.width * self.height * 3
      /\ (call.x >= self.width \/ call.y >= self.height) )
        => (~call.panic /\ call.rgb = RGB0)

\* the magic or a numeric token is malformed, or the input ends inside the
\* header
MalformedHeader ==
    \/ /\ file.family = "tokens"
       /\ \/ file.magic \in BadMagics
          \/ file.width \in BadNumbers
          \/ file.height \in BadNumbers
          \/ file.max_value \in BadNumbers
    \/ /\ file.family = "cut"
       /\ Len(input) < HeaderLen(file)

\* C5: for every input with a malformed or missing header token
\* populate_from_buffer returns an Err to its caller; it does not panic and
\* no image is produced.
C5_HeaderErrReturned ==
    (MalformedHeader /\ (Populated \/ Observable))
        => (result = "Err" /\ ~Observable)

\* the file without its header comments
StripComments(f) ==
    [f EXCEPT !.gap = [i \in 1..4 |-> [f.gap[i] EXCEPT !.comment = <<>>]]]
\* between every two header tokens there is whitespace, comments aside
TokensDelimited(f) ==
    \A i \in 1..3 : f.gap[i].pre \o f.gap[i].post # <<>>
HasComment(f) == \E i \in 1..3 : f.gap[i].comment # <<>>

\* C6: a valid P3 file with comments between its header tokens decodes to
\* the same version, width, height, max_value and buffer as the file with
\* the comments taken out, wherever the comments start.
C6_CommentsTransparent ==
    ( /\ file.family = "gaps" /\ file.magic = StrP3 /\ Whole
      /\ TokensDelimited(file) /\ HasComment(file) /\ Populated )
        => LET o == populate_from_buffer(NewPPM,
                                         FileBytes(StripComments(file)))
           IN  result = o.result /\ self = o.self

\* C7: after a successful decode the buffer is U8 exactly when
\* max_value <= 255; a U16 buffer of a P3 file holds the text's samples
\* unchanged, and a P6 file with max_value > 255 gives one U16 sample per raw
\* byte, of the same value.
C7_DepthPromotion ==
    (file.family \in {"P3", "P6"} /\ Whole /\ result = "Ok")
        => LET b == get_buffer_ref(self)
           IN  /\ (b.kind = "U8") <=> (self.max_value <= 255)
               /\ (b.kind = "U16") <=> (self.max_value > 255)
               /\ (b.kind = "U16" /\ file.family = "P3")
                     => \A i \in 1..Len(b.data) :
                           i <= Len(file.samples)
                             /\ b.data[i] = file.samples[i]
               /\ (file.family = "P6" /\ self.max_value > 255)
                     => b = BitmapU16(file.data)

\* C8: whenever code outside the constructor holds a PPM or JPEG value
\* (from_buffer has returned), its buffer is U8 or U16, never None, and the
\* decode behind it succeeded.
C8_NeverNoneOutside ==
    Observable
        => (result = "Ok" /\ get_buffer_ref(self).kind \in {"U8", "U16"})

\* from_buffer has returned a decoded PPM to its caller
C8_Witness ==
    /\ pc = "returned"
    /\ self.type = "PPM"
    /\ get_buffer_ref(self).kind = "U16"
    /\ Len(get_buffer_ref(self).data) > 0

\* C9: write_to_jpeg at quality 100 on any decoded P6 image with width > 0
\* and height > 0 completes without error or panic.
C9_P6SavesAsJpeg ==
    ( /\ call.op = "write_to_jpeg" /\ call.quality = 100
      /\ self.type = "PPM" /\ self.ver = "P6"
      /\ self.width > 0 /\ self.height > 0 )
        => ~call.panic

\* buf starts with the four header tokens of f, exactly one whitespace byte
\* between each and the next
HeaderNormalized(buf, f) ==
    LET a == Len(f.magic)
        b == a + 1 + Len(f.width)
        c == b + 1 + Len(f.height)
        d == c + 1 + Len(f.max_value)
    IN  /\ Len(buf) >= d
        /\ SubSeq(buf, 1, a) = f.magic
        /\ is_whitespace(buf[a + 1])
        /\ SubSeq(buf, a + 2, b) = f.width
        /\ is_whitespace(buf[b + 1])
        /\ SubSeq(buf, b + 2, c) = f.height
        /\ is_whitespace(buf[c + 1])
        /\ SubSeq(buf, c + 2, d) = f.max_value

\* C10: after the retain pass the header holds no comment byte and every two
\* consecutive header tokens of the input are separated by exactly one
\* whitespace byte, never by none and never by two.
C10_HeaderNormalized ==
    ( /\ pc = "retained" /\ file.family = "gaps" /\ Whole
      /\ TokensDelimited(file) )
        => HeaderNormalized(buffer, file)

\* C11: a P3 file with a valid header whose pixel data holds a byte that is
\* neither a digit nor whitespace makes populate_from_buffer return an Err;
\* it does not panic and no image is produced.
C11_BadSampleErrReturned ==
    (file.family = "P3bad" /\ Whole /\ (Populated \/ Observable))
        => (result = "Err" /\ ~Observable)

\* C13: when max_value <= 255 the decode of a P3 file succeeds whatever the
\* samples are (up to 65535), and every stored U8 sample is the sample of
\* the text modulo 256: no rejection, no clamping.
C13_NarrowingTruncates ==
    ( /\ file.family \in {"P3", "P3wide"} /\ Whole
      /\ file.maxv <= 255 /\ Populated )
        => LET b == get_buffer_ref(self)
           IN  /\ result = "Ok"
               /\ b.kind = "U8"
               /\ \A i \in 1..Len(b.data) :
                     /\ i <= Len(file.samples)
                     /\ b.data[i] \in 0..255
                     /\ \E q \in 0..255 :
                           file.samples[i] = q * 256 + b.data[i]

\* a file with max_value 255 and the sample 300 was decoded: 44 is stored
C13_Witness ==
    /\ file.maxv <= 255 /\ Whole /\ result = "Ok"
    /\ \E i \in 1..Len(get_buffer_ref(self).data) :
          /\ i <= Len(file.samples)
          /\ file.samples[i] = 300
          /\ get_buffer_ref(self).data[i] = 44

-----------------------------------------------------------------------------
(* The application's properties.                                           *)

\* no LoadFile has been handled: a LoadFile that returned left an image, a
\* LoadFile that panicked is the last message handled
NoLoadFileYet == is_none(app.image) /\ handled.msg # "LoadFile"

\* C12: from App::create, no sequence of messages without a LoadFile
\* reaches a panic, and a Draw or a SaveAsJpeg handled while image is None
\* returns false and leaves image, scale, translate_pos, file_changed and
\* quality as they were.
C12_NoPanicBeforeLoadFile ==
    /\ NoLoadFileYet => ~handled.panic
    /\ (handled.msg \in {"Draw", "SaveAsJpeg"} /\ is_none(app.image))
          => (~handled.ret /\ ~handled.panic /\ handled.kept)

\* every LoadFile that returned set file_changed, reset scale to 1.0 and
\* sent a Draw
LoadFileArmsDraw ==
    (handled.msg = "LoadFile" /\ ~handled.panic)
        => /\ app.file_changed
           /\ app.scale = ScaleOne
           /\ queue # <<>>
           /\ queue[Len(queue)].msg = "Draw"

\* file_changed is true exactly when a LoadFile has been handled and no Draw
\* since
FlagMeansLoadUndrawn == app.file_changed <=> handled.load_undrawn

\* the upload happens only in a Draw that found file_changed and cleared it
UploadOnlyWhenFlagged ==
    handled.uploaded
        => (handled.msg = "Draw" /\ handled.found_changed
            /\ ~app.file_changed)

\* with the queue drained the flag is down and the texture is the image's
DrainedShowsImage ==
    queue = <<>>
        => /\ ~app.file_changed
           /\ ~is_none(app.image) => dom.texture = app.image

\* a Draw sent by Zoom does not upload
ZoomDrawKeepsTexture ==
    (handled.msg = "Draw" /\ handled.by = "Zoom") => ~handled.uploaded

\* C14: a LoadFile that returns sets file_changed, resets scale to 1.0 and
\* enqueues a Draw; file_changed is true exactly when a LoadFile has been
\* handled and no Draw since; the texture is uploaded only by a Draw that
\* finds file_changed and clears it; once the queue drains file_changed is
\* false and the texture is that of the image loaded last; a Draw sent by
\* Zoom never uploads.
C14_UploadFollowsLoad ==
    /\ LoadFileArmsDraw
    /\ FlagMeansLoadUndrawn
    /\ UploadOnlyWhenFlagged
    /\ DrainedShowsImage
    /\ ZoomDrawKeepsTexture

====
